---- MODULE Spec2Model ----
(***************************************************************************)
(* Model of src/tiingo.py: TiingoClient (two HTTP requests against the     *)
(* provider) and TickerPriceStorage.read (one parquet file per ticker,     *)
(* re-fetched whenever its min/max date differ from the provider's         *)
(* startDate/endDate).                                                     *)
(*                                                                         *)
(* The provider is the environment: each HTTP request is answered by a     *)
(* response drawn from a small set (a network failure, a status with a    *)
(* body).  A price response holds rows in ascending date order with        *)
(* unique dates inside the requested range, which is what the provider's   *)
(* daily endpoint returns.                                                 *)
(***************************************************************************)
EXTENDS Integers, Sequences, FiniteSets, TLC

\* ------------------------------------------------------------------ bounds
\* calendar dates are 1..MaxDate
MaxDate == 3
\* the dates of the two interleaved callers are 1..MaxConcDate
MaxConcDate == 2

\* HTTP status that get_ticker_info accepts (tiingo.py:81)
StatusOK == 200

Dates == 1..MaxDate
ConcDates == 1..MaxConcDate
\* sample adjusted closes: two revisions of the provider's data
Closes == {100, 101}
ConcCloses == {100}
Tickers == {"QQQ", "SPY"}
Callers == {1, 2}
\* the one caller of the sequential program
Main == 1
Statuses == {StatusOK, 404, 500}

\* ------------------------------------------------------------------ values
NoStatus == 0
ErrorTickerNotFound == "Ticker not found"
ConnectionError == "ConnectionError"
JSONDecodeError == "JSONDecodeError"
KeyError == "KeyError: 'date'"

\* the columns pandas derives from the fields of the TickerPrice dataclass
\* (the date and one price field stand for the thirteen fields)
TickerPriceFields == {"date", "adjusted_close"}

\* a frame: its columns and its rows
EmptyFrame == [cols |-> {}, rows |-> <<>>]
\* no file at the path
Absent == [exists |-> FALSE, cols |-> {}, rows |-> <<>>]
\* ticker_info before get_ticker_info has returned
NoInfo == [startDate |-> 0, endDate |-> 0]
\* prices before get_ticker_prices has returned
NoPrices == [returned |-> FALSE, list |-> <<>>]
\* read has neither returned nor raised
NoRet == [kind |-> "none", error |-> "", df |-> EmptyFrame]
Raised(e) == [kind |-> "error", error |-> e, df |-> EmptyFrame]
Returned(df) == [kind |-> "table", error |-> "", df |-> df]
\* the provider is free to answer anything
NoPin == [on |-> FALSE, info |-> NoInfo, fetched |-> FALSE, body |-> <<>>,
          first |-> EmptyFrame]

\* ---------------------------------------------------- provider responses
RECURSIVE AscendingDates(_)
\* the dates of set D as an ascending sequence
AscendingDates(D) ==
    IF D = {} THEN <<>>
    ELSE LET m == CHOOSE x \in D : \A y \in D : x <= y
         IN <<m>> \o AscendingDates(D \ {m})

\* one element of the JSON array of the prices endpoint: the date is an ISO
\* timestamp (calendar day, time of day), the adjusted close is under adjClose
JsonPrice(d, c) == [date |-> <<d, 0>>, adjClose |-> c]

\* a JSON array of the prices endpoint: one row per traded day of D, ascending
JsonArray(D, c) ==
    LET ds == AscendingDates(D)
    IN [i \in 1..Len(ds) |-> JsonPrice(ds[i], c)]

\* an HTTP exchange: the connection failed, or a status came back with a body
\* that parses as JSON (json) or does not (valid = FALSE)
NetworkFailure(j) == [failed |-> TRUE, status |-> NoStatus, valid |-> FALSE, json |-> j]
Malformed(s, j) == [failed |-> FALSE, status |-> s, valid |-> FALSE, json |-> j]
Json(s, j) == [failed |-> FALSE, status |-> s, valid |-> TRUE, json |-> j]

\* the answers of the prices endpoint for the range s..e: possibly no row,
\* possibly no row for s or for e
PriceAnswers(s, e, C) ==
    {Json(StatusOK, JsonArray(D, c)) : D \in SUBSET (s..e), c \in C}
        \cup {NetworkFailure(<<>>), Malformed(StatusOK, <<>>)}

\* the answers of the metadata endpoint
InfoAnswers(D) ==
    {Json(StatusOK, [startDate |-> s, endDate |-> e]) : s \in D, e \in D}
        \cup {Malformed(s, NoInfo) : s \in Statuses}
        \cup {NetworkFailure(NoInfo)}

\* ------------------------------------------------------------ conversions
\* TickerPrice.from_json: the timestamp is cut to its calendar date, adjClose
\* is renamed adjusted_close
from_json(json) == [date |-> json.date[1], adjusted_close |-> json.adjClose]

\* TickerInfo built from the metadata body
TickerInfo(json) == [startDate |-> json.startDate, endDate |-> json.endDate]

\* the frame without its last record (an off-by-one in the materialisation)
DataFrameNoLast(list) ==
    IF Len(list) <= 1 THEN EmptyFrame
    ELSE [cols |-> TickerPriceFields, rows |-> SubSeq(list, 1, Len(list) - 1)]

\* pd.DataFrame(prices): the columns come from the records, so an empty list
\* gives a frame with no columns at all
DataFrame(list) ==
    IF list = <<>> THEN EmptyFrame
    ELSE [cols |-> TickerPriceFields, rows |-> list]

\* df.to_parquet(filepath): the file holds the schema and the rows
to_parquet(df) == [exists |-> TRUE, cols |-> df.cols, rows |-> df.rows]

\* pd.read_parquet(filepath)
read_parquet(content) == [cols |-> content.cols, rows |-> content.rows]

RECURSIVE SeqMin(_)
SeqMin(s) ==
    IF Len(s) = 1 THEN s[1]
    ELSE LET m == SeqMin(Tail(s)) IN IF s[1] <= m THEN s[1] ELSE m

RECURSIVE SeqMax(_)
SeqMax(s) ==
    IF Len(s) = 1 THEN s[1]
    ELSE LET m == SeqMax(Tail(s)) IN IF s[1] >= m THEN s[1] ELSE m

DateColumn(df) == [i \in 1..Len(df.rows) |-> df.rows[i].date]

\* the two bounds compared with the wrong ends
BoundsMatchSwapped(df, ticker_info) ==
    /\ SeqMin(DateColumn(df)) = ticker_info.endDate
    /\ SeqMax(DateColumn(df)) = ticker_info.startDate

\* the loaded dates compared with values of another type: never equal
BoundsMatchTypeMismatch(df, ticker_info) ==
    /\ <<SeqMin(DateColumn(df))>> = <<ticker_info.startDate, 0>>
    /\ <<SeqMax(DateColumn(df))>> = <<ticker_info.endDate, 0>>

\* df['date'].min() == startDate and df['date'].max() == endDate
BoundsMatch(df, ticker_info) ==
    /\ SeqMin(DateColumn(df)) = ticker_info.startDate
    /\ SeqMax(DateColumn(df)) = ticker_info.endDate

\* ------------------------------------------------------------------ state
VARIABLES
    file,       \* file[t]: content of <path>/<t>.parquet, or Absent
    pc,         \* pc[p]: position of caller p inside read
    ticker,     \* ticker[p]: argument of the running read
    status,     \* status[p]: HTTP status of the metadata response
    info,       \* info[p]: ticker_info
    body,       \* body[p]: JSON array of the prices response
    prices,     \* prices[p]: the list get_ticker_prices returned
    ret,        \* ret[p]: what read returned or raised
    nInfoReq,   \* requests to the metadata endpoint in this call
    nPriceReq,  \* requests to the prices endpoint in this call
    nWrite,     \* to_parquet calls in this call
    pinned,     \* pinned[p]: provider data held fixed for a repeated call
    entry       \* entry[p]: the files as they were when the call was entered

vars == <<file, pc, ticker, status, info, body, prices, ret,
          nInfoReq, nPriceReq, nWrite, pinned, entry>>

\* TickerPriceStorage.__init__: the directory exists; the model starts with
\* an empty directory and no read running
Init ==
    /\ file = [t \in Tickers |-> Absent]
    /\ pc = [p \in Callers |-> "idle"]
    /\ ticker = [p \in Callers |-> "QQQ"]
    /\ status = [p \in Callers |-> NoStatus]
    /\ info = [p \in Callers |-> NoInfo]
    /\ body = [p \in Callers |-> <<>>]
    /\ prices = [p \in Callers |-> NoPrices]
    /\ ret = [p \in Callers |-> NoRet]
    /\ nInfoReq = [p \in Callers |-> 0]
    /\ nPriceReq = [p \in Callers |-> 0]
    /\ nWrite = [p \in Callers |-> 0]
    /\ pinned = [p \in Callers |-> NoPin]
    /\ entry = [p \in Callers |-> file]

\* the per-call state at the entry of read(t)
Enter(p, t, pin) ==
    /\ pc' = [pc EXCEPT ![p] = "info"]
    /\ ticker' = [ticker EXCEPT ![p] = t]
    /\ status' = [status EXCEPT ![p] = NoStatus]
    /\ info' = [info EXCEPT ![p] = NoInfo]
    /\ body' = [body EXCEPT ![p] = <<>>]
    /\ prices' = [prices EXCEPT ![p] = NoPrices]
    /\ ret' = [ret EXCEPT ![p] = NoRet]
    /\ nInfoReq' = [nInfoReq EXCEPT ![p] = 0]
    /\ nPriceReq' = [nPriceReq EXCEPT ![p] = 0]
    /\ nWrite' = [nWrite EXCEPT ![p] = 0]
    /\ pinned' = [pinned EXCEPT ![p] = pin]
    /\ entry' = [entry EXCEPT ![p] = file]
    /\ UNCHANGED file

\* read(t) is called, the provider free to answer anything
Begin(p, t) ==
    /\ pc[p] \in {"idle", "done"}
    /\ Enter(p, t, NoPin)

\* read(t) is called again right after a read(t) that returned a table, with
\* the provider unchanged: it will answer what it answered to the first call
Repeat(p) ==
    /\ pc[p] = "done"
    /\ ret[p].kind = "table"
    /\ Enter(p, ticker[p],
             [on |-> TRUE, info |-> info[p], fetched |-> prices[p].returned,
              body |-> body[p], first |-> ret[p].df])

\* the metadata responses the provider may give to caller p
InfoResponses(p, D) ==
    IF pinned[p].on THEN {Json(StatusOK, pinned[p].info)} ELSE InfoAnswers(D)

\* the prices responses the provider may give to the request of caller p
PriceResponses(p, C) ==
    IF pinned[p].on /\ pinned[p].fetched
    THEN {Json(StatusOK, pinned[p].body)}
    ELSE PriceAnswers(info[p].startDate, info[p].endDate, C)

\* only 404 taken for a lookup failure
StatusAcceptedNot404(s) == s # 404

\* get_ticker_info, line 81: any status but 200 is a lookup failure
StatusAccepted(s) == s = StatusOK

\* an exception leaves read
Raise(p, e) ==
    /\ pc' = [pc EXCEPT ![p] = "done"]
    /\ ret' = [ret EXCEPT ![p] = Raised(e)]

\* TiingoClient.get_ticker_info, called at the first line of read
GetTickerInfo(p, D) ==
    /\ pc[p] = "info"
    /\ nInfoReq' = [nInfoReq EXCEPT ![p] = @ + 1]
    /\ \E response \in InfoResponses(p, D) :
         /\ status' = [status EXCEPT ![p] = response.status]
         /\ IF response.failed
            THEN Raise(p, ConnectionError) /\ UNCHANGED info
            ELSE IF ~StatusAccepted(response.status)
            THEN Raise(p, ErrorTickerNotFound) /\ UNCHANGED info
            ELSE IF ~response.valid
            THEN Raise(p, JSONDecodeError) /\ UNCHANGED info
            ELSE /\ info' = [info EXCEPT ![p] = TickerInfo(response.json)]
                 /\ pc' = [pc EXCEPT ![p] = "check"]
                 /\ UNCHANGED ret
    /\ UNCHANGED <<file, ticker, body, prices, nPriceReq, nWrite, pinned, entry>>

\* read, lines 102-105: the existence test, the load and the freshness test
LoadAndCompare(p) ==
    /\ IF ~file[ticker[p]].exists
       THEN /\ pc' = [pc EXCEPT ![p] = "prices"]
            /\ UNCHANGED ret
       ELSE LET df == read_parquet(file[ticker[p]]) IN
            IF "date" \notin df.cols
            THEN Raise(p, KeyError)
            ELSE IF BoundsMatch(df, info[p])
            THEN /\ pc' = [pc EXCEPT ![p] = "done"]
                 /\ ret' = [ret EXCEPT ![p] = Returned(df)]
            ELSE /\ pc' = [pc EXCEPT ![p] = "prices"]
                 /\ UNCHANGED ret
    /\ UNCHANGED <<file, ticker, status, info, body, prices,
                   nInfoReq, nPriceReq, nWrite, pinned, entry>>

\* the check held back while another caller re-fetches the same ticker
CheckCacheLocked(p) ==
    /\ pc[p] = "check"
    /\ \A q \in Callers \ {p} :
         ~(ticker[q] = ticker[p] /\ pc[q] \in {"prices", "write"})
    /\ LoadAndCompare(p)

\* read, lines 101-105, reached once get_ticker_info has returned
CheckCache(p) ==
    /\ pc[p] = "check"
    /\ LoadAndCompare(p)

\* the file opened for writing before the prices are there, so that a failed
\* request leaves an empty file behind
PricesFailedTruncating(p, e) ==
    /\ Raise(p, e)
    /\ file' = [file EXCEPT ![ticker[p]] = to_parquet(EmptyFrame)]
    /\ UNCHANGED <<body, prices>>

\* requests.get or response.json() or from_json raises inside
\* get_ticker_prices: the exception leaves read at line 106
PricesFailed(p, e) ==
    /\ Raise(p, e)
    /\ UNCHANGED <<file, body, prices>>

\* TiingoClient.get_ticker_prices, called at line 106 of read (the status of
\* the response is not looked at)
GetTickerPrices(p, C) ==
    /\ pc[p] = "prices"
    /\ nPriceReq' = [nPriceReq EXCEPT ![p] = @ + 1]
    /\ \E response \in PriceResponses(p, C) :
         IF response.failed
         THEN PricesFailed(p, ConnectionError)
         ELSE IF ~response.valid
         THEN PricesFailed(p, JSONDecodeError)
         ELSE /\ body' = [body EXCEPT ![p] = response.json]
              /\ prices' = [prices EXCEPT ![p] =
                   [returned |-> TRUE,
                    list |-> [i \in 1..Len(response.json) |-> from_json(response.json[i])]]]
              /\ pc' = [pc EXCEPT ![p] = "write"]
              /\ UNCHANGED <<file, ret>>
    /\ UNCHANGED <<ticker, status, info, nInfoReq, nWrite, pinned, entry>>

\* the new rows appended to the rows already in the file
AppendRows(old, df) ==
    IF old.exists
    THEN [exists |-> TRUE, cols |-> old.cols \cup df.cols, rows |-> old.rows \o df.rows]
    ELSE to_parquet(df)

\* read, line 108: to_parquet replaces whatever the path held
Overwrite(old, df) == to_parquet(df)

\* read, lines 107-109: build the frame, overwrite the file, load it again
WriteCache(p) ==
    /\ pc[p] = "write"
    /\ file' = [file EXCEPT ![ticker[p]] = Overwrite(@, DataFrame(prices[p].list))]
    /\ ret' = [ret EXCEPT ![p] = Returned(read_parquet(file'[ticker[p]]))]
    /\ nWrite' = [nWrite EXCEPT ![p] = @ + 1]
    /\ pc' = [pc EXCEPT ![p] = "done"]
    /\ UNCHANGED <<ticker, status, info, body, prices, nInfoReq, nPriceReq, pinned,
                   entry>>

\* the program as written: one process, one read at a time, any ticker
Next ==
    \/ \E t \in Tickers : Begin(Main, t)
    \/ Repeat(Main)
    \/ GetTickerInfo(Main, Dates)
    \/ CheckCache(Main)
    \/ GetTickerPrices(Main, Closes)
    \/ WriteCache(Main)

Spec == Init /\ [][Next]_vars

\* two callers whose reads of one ticker interleave at the granularity of the
\* steps metadata request, cache check, price request, file write
NextConc ==
    \E p \in Callers :
        \/ Begin(p, "QQQ")
        \/ GetTickerInfo(p, ConcDates)
        \/ CheckCache(p)
        \/ GetTickerPrices(p, ConcCloses)
        \/ WriteCache(p)

SpecConc == Init /\ [][NextConc]_vars

\* ------------------------------------------------------------------ claims
\* the terms of the claims, stated on the state and not through the code's
\* own operators
RunningTicker(p) == ticker[p]

\* the dates recorded in a file
DatesOf(content) == {content.rows[i].date : i \in DOMAIN content.rows}

\* the file exists, its least date is startDate and its greatest is endDate
Fresh(content, ticker_info) ==
    /\ content.exists
    /\ ticker_info.startDate \in DatesOf(content)
    /\ ticker_info.endDate \in DatesOf(content)
    /\ \A d \in DatesOf(content) :
         ticker_info.startDate <= d /\ d <= ticker_info.endDate

\* the file of the ticker caller p reads, as it was when p entered read
EntryFile(p) == entry[p][ticker[p]]

\* get_ticker_info has succeeded and the cache test of this call is behind
Checked(p) == pc[p] \in {"prices", "write", "done"} /\ info[p] # NoInfo

\* the price request of this call was sent and failed
PriceRetrievalFailed(p) ==
    pc[p] = "done" /\ nPriceReq[p] = 1 /\ ~prices[p].returned

\* C1 (as claimed): a read repeated right after a successful read of the same
\* ticker, the provider answering the same, is a cache hit: no price request,
\* no write, the same file and the same table as the first call returned.
C1_Idempotent ==
    \A p \in Callers :
        (pc[p] = "done" /\ pinned[p].on) =>
            /\ ret[p] = Returned(pinned[p].first)
            /\ nPriceReq[p] = 0
            /\ nWrite[p] = 0
            /\ file = entry[p]

\* C2 (as claimed): once the metadata request has succeeded, a cache file that
\* is absent or whose least/greatest date is not startDate/endDate makes read
\* request the prices, and the write replaces the file by the returned rows.
C2_FreshnessTrigger ==
    \A p \in Callers :
        (Checked(p) /\ ~Fresh(EntryFile(p), info[p])) =>
            /\ pc[p] = "prices" \/ nPriceReq[p] = 1
            /\ nWrite[p] = 1 =>
                 /\ file[RunningTicker(p)].exists
                 /\ file[RunningTicker(p)].rows = prices[p].list

\* C3: when the file exists with least date startDate and greatest date
\* endDate, read returns the table loaded from it, sends no price request and
\* leaves every file as it was.
C3_CacheHit ==
    \A p \in Callers :
        (Checked(p) /\ Fresh(EntryFile(p), info[p])) =>
            /\ pc[p] = "done"
            /\ ret[p].kind = "table"
            /\ ret[p].df.rows = EntryFile(p).rows
            /\ ret[p].df.cols = EntryFile(p).cols
            /\ nPriceReq[p] = 0
            /\ nWrite[p] = 0
            /\ file = entry[p]

\* a hit on a file of several rows
C3_Witness ==
    \E p \in Callers :
        /\ pc[p] = "done"
        /\ Checked(p)
        /\ Fresh(EntryFile(p), info[p])
        /\ Len(ret[p].df.rows) >= 2

\* C4: a metadata response with any status but 200 ends read with the
\* TickerNotFound error and nothing else: no price request, no write, every
\* file as it was.
C4_MetadataError ==
    \A p \in Callers :
        (status[p] # NoStatus /\ status[p] # 200) =>
            /\ pc[p] = "done"
            /\ ret[p] = Raised(ErrorTickerNotFound)
            /\ nInfoReq[p] = 1
            /\ nPriceReq[p] = 0
            /\ nWrite[p] = 0
            /\ file = entry[p]

\* a 500 answered to a read whose ticker has a cache file
C4_Witness ==
    \E p \in Callers :
        /\ pc[p] = "done"
        /\ status[p] = 500
        /\ ret[p].kind = "error"
        /\ file[RunningTicker(p)].exists

\* C5: when the price request fails (network, or a body that does not parse)
\* read fails and every file is what it was when read was entered; a file is
\* written only once the whole price list has been returned.
C5_NoPartialCache ==
    \A p \in Callers :
        /\ PriceRetrievalFailed(p) =>
             /\ ret[p].kind = "error"
             /\ nWrite[p] = 0
             /\ file = entry[p]
        /\ nWrite[p] >= 1 => (prices[p].returned /\ nPriceReq[p] = 1)

\* an unparsable prices body answered to a read that found a stale file
C5_Witness ==
    \E p \in Callers :
        /\ PriceRetrievalFailed(p)
        /\ ret[p].error = JSONDecodeError
        /\ EntryFile(p).exists
        /\ EntryFile(p).rows # <<>>

\* strictly ascending dates
AscendingByDate(rows) ==
    \A i \in DOMAIN rows : \A j \in DOMAIN rows : i < j => rows[i].date < rows[j].date

C7_Lifecycle ==
    [][\A t \in Tickers :
          /\ file[t].exists => file'[t].exists
          /\ file'[t] # file[t] =>
               /\ \E p \in Callers :
                    /\ ticker[p] = t
                    /\ prices[p].returned
                    /\ file'[t].exists
                    /\ file'[t].rows = prices[p].list
               /\ \A u \in Tickers \ {t} : file'[u] = file[u]]_vars

\* a stale file of one ticker replaced by other rows while the other ticker
\* has a file too
C7_Witness ==
    \E p \in Callers :
        /\ pc[p] = "done"
        /\ nWrite[p] = 1
        /\ EntryFile(p).rows # <<>>
        /\ file[RunningTicker(p)].rows # <<>>
        /\ file[RunningTicker(p)].rows # EntryFile(p).rows
        /\ \A u \in Tickers : file[u].exists

\* C8: inside one read the metadata request is sent exactly once and before
\* anything else; at most one price request is sent, only after the metadata
\* request succeeded and the cache was found absent or stale; the file is
\* written at most once and only after the price request has returned.
C8_Ordering ==
    \A p \in Callers :
        /\ nInfoReq[p] <= 1 /\ nPriceReq[p] <= 1 /\ nWrite[p] <= 1
        /\ pc[p] = "info" => (nInfoReq[p] = 0 /\ nPriceReq[p] = 0 /\ nWrite[p] = 0
                              /\ file = entry[p])
        /\ pc[p] \in {"check", "prices", "write", "done"} => nInfoReq[p] = 1
        /\ (nPriceReq[p] = 1 \/ pc[p] = "prices") =>
             /\ status[p] = 200
             /\ info[p] # NoInfo
             /\ ~Fresh(EntryFile(p), info[p])
             /\ nInfoReq[p] = 1
        /\ nWrite[p] = 1 => (nPriceReq[p] = 1 /\ prices[p].returned)
        /\ (pc[p] # "idle" /\ file # entry[p]) => nWrite[p] = 1

\* a read that went through all three steps on a stale file
C8_Witness ==
    \E p \in Callers :
        /\ pc[p] = "done"
        /\ nInfoReq[p] = 1 /\ nPriceReq[p] = 1 /\ nWrite[p] = 1
        /\ EntryFile(p).exists

\* C9 (as claimed): whatever reads came before, a read whose metadata request
\* succeeds and whose price request, if any, succeeds returns a table.
C9_ReadableCache ==
    \A p \in Callers :
        (/\ pc[p] = "done"
         /\ status[p] = 200
         /\ info[p] # NoInfo
         /\ nPriceReq[p] = 1 => prices[p].returned) =>
            ret[p].kind = "table"

\* C10: nothing excludes two reads of one ticker from each other: a caller
\* at the cache test, at the price request or at the write can always take
\* that step, wherever the other caller stands.
C10_NoMutualExclusion ==
    \A p \in Callers :
        /\ pc[p] = "check" => ENABLED CheckCache(p)
        /\ pc[p] = "prices" => ENABLED GetTickerPrices(p, ConcCloses)
        /\ pc[p] = "write" => ENABLED WriteCache(p)

\* both callers took the miss path on the same absent or stale file for the
\* same metadata, both have sent their price request and both are about to
\* overwrite the file
C10_Witness ==
    /\ \A p \in Callers : pc[p] = "write" /\ nPriceReq[p] = 1
    /\ ticker[1] = ticker[2]
    /\ info[1] = info[2]
    /\ ~Fresh(file[ticker[1]], info[1])
    /\ prices[1] # prices[2]

====
